---- MODULE Spec2Model ----
(***************************************************************************)
(* Red-black tree of examples/rbtree.py: RBNode, NodeWalker and RBTree.    *)
(* Nodes live in a heap (a sequence of records indexed by node identity),  *)
(* so that object identity (`is`), the copy-based rotations and the        *)
(* walker's path of references are modelled as the code has them.          *)
(***************************************************************************)
EXTENDS Integers, Sequences, FiniteSets, TLC

\* Bounds of the model: number of add() calls and range of the added keys.
MaxAdds == 8
MaxVal == 2

\* Bound of the runs over pairwise distinct keys: the keys are 1..MaxKeys.
MaxKeys == 6

\* Bound of the runs of a client's walker: number of update calls.
MaxUpdates == 5

\* Bound of the runs over arbitrary trees: number of nodes.
MaxNodes == 5

\* Python's None (an absent child, an empty root, the walker's empty marker).
NONE == 0

\* NodeColor and Direction enums.
RED == "RED"
BLACK == "BLACK"
LEFT == "LEFT"
RIGHT == "RIGHT"

\* No exception has been raised.
OK == "ok"

VARIABLES
    heap,            \* node identity -> [value, color, left, right]
    root,            \* RBTree.root
    path,            \* NodeWalker.path of the walker of the running add
    leaf_direction,  \* NodeWalker.leaf_direction
    err,             \* OK, or the exception that escaped
    pc,              \* position of the running add: idle / descend / fix / error
    z,               \* the node created by the running add
    added,           \* history: the values passed to add, in call order
    arm,             \* history: match arm applied by the last fixup iteration (0: none yet)
    gp,              \* history: node matched (the grandparent) by the last iteration
    iters,           \* history: fixup iterations of the running add
    rotations,       \* history: rotations performed by the running add
    sides,           \* history: the side each path entry after the first was entered by
    updates          \* history: update calls made on a client's walker

vars == <<heap, root, path, leaf_direction, err, pc, z, added, arm, gp, iters,
          rotations, sides, updates>>

----------------------------------------------------------------------------
\* The mutable objects an operation works on, as one record.
M == [heap |-> heap, root |-> root, path |-> path,
      leaf_direction |-> leaf_direction, err |-> err]

\* The element of a one-element set.  Only({e(x) : x \in {a}}) is e(a) with a
\* evaluated once, however often e uses x.
Only(S) == CHOOSE x \in S : TRUE

Raise(m, e) == [m EXCEPT !.err = e]

\* RBNode(value, color, left, right): the dataclass constructor's fields.
RBNode(value, color, left, right) ==
    [value |-> value, color |-> color, left |-> left, right |-> right]

\* Allocation of a node object; its identity is the next heap index.
New(m, node) == [m EXCEPT !.heap = Append(@, node)]

\* Comparable.__lt__ on the stored values (the tag is the occurrence's
\* identity and takes no part in comparisons).
lt(a, b) == a.key < b.key

eq(a, b) == a.key = b.key

----------------------------------------------------------------------------
\* RBNode methods.

RECURSIVE iter(_, _)
iter(h, n) ==
    IF n = NONE THEN << >>
    ELSE iter(h, h[n].left) \o <<h[n].value>> \o iter(h, h[n].right)

RECURSIVE nodes(_, _)
nodes(h, n) ==
    IF n = NONE THEN << >>
    ELSE nodes(h, h[n].left) \o <<n>> \o nodes(h, h[n].right)

Max(a, b) == IF a >= b THEN a ELSE b

RECURSIVE depth(_, _)
depth(h, n) ==
    IF n = NONE THEN 0
    ELSE Max(depth(h, h[n].left), depth(h, h[n].right)) + 1

----------------------------------------------------------------------------
\* NodeWalker.

NodeWalker(m) == [m EXCEPT !.path = <<m.root>>, !.leaf_direction = LEFT]

current(m) == m.path[Len(m.path)]

is_root(m) == Len(m.path) = 1

parent(m) == m.path[Len(m.path) - 1]

is_left_child(m) ==
    IF current(m) = NONE THEN m.leaf_direction = LEFT
    ELSE m.heap[parent(m)].left = current(m)

is_right_child(m) ==
    IF current(m) = NONE THEN m.leaf_direction = RIGHT
    ELSE m.heap[parent(m)].right = current(m)

up(w) ==
    Only({
        IF m.err # OK THEN m
        ELSE IF is_root(m) THEN Raise(m, "ValueError")
        ELSE [m EXCEPT !.path = SubSeq(@, 1, Len(@) - 1)]
        : m \in {w}})

\* left assigning leaf_direction before its check of the current entry.
left_dirfirst(w) ==
    Only({
        IF m.err # OK THEN m
        ELSE LET c == current(m) IN
             IF c = NONE THEN Raise([m EXCEPT !.leaf_direction = LEFT], "ValueError")
             ELSE [m EXCEPT !.path = Append(@, m.heap[c].left),
                            !.leaf_direction =
                                IF m.heap[c].left = NONE THEN LEFT ELSE @]
        : m \in {w}})

left(w) ==
    Only({
        IF m.err # OK THEN m
        ELSE LET c == current(m) IN
             IF c = NONE THEN Raise(m, "ValueError")
             ELSE [m EXCEPT !.path = Append(@, m.heap[c].left),
                            !.leaf_direction =
                                IF m.heap[c].left = NONE THEN LEFT ELSE @]
        : m \in {w}})

right(w) ==
    Only({
        IF m.err # OK THEN m
        ELSE LET c == current(m) IN
             IF c = NONE THEN Raise(m, "ValueError")
             ELSE [m EXCEPT !.path = Append(@, m.heap[c].right),
                            !.leaf_direction =
                                IF m.heap[c].right = NONE THEN RIGHT ELSE @]
        : m \in {w}})

\* update without its path assignments: the slot is written but the walker
\* keeps referring to the node it replaced.
update_stale(w, new_child) ==
    Only({
        IF m.err # OK THEN m
        ELSE IF Len(m.path) >= 2
        THEN LET new_parent == parent(m) IN
             IF new_parent = NONE THEN Raise(m, "AssertionError")
             ELSE [m EXCEPT
                     !.heap[new_parent] =
                         IF is_left_child(m) THEN [@ EXCEPT !.left = new_child]
                         ELSE [@ EXCEPT !.right = new_child]]
        ELSE [m EXCEPT !.root = new_child]
        : m \in {w}})

update(w, new_child) ==
    Only({
        IF m.err # OK THEN m
        ELSE IF Len(m.path) >= 2
        THEN LET new_parent == parent(m) IN
             IF new_parent = NONE THEN Raise(m, "AssertionError")
             ELSE [m EXCEPT
                     !.heap[new_parent] =
                         IF is_left_child(m) THEN [@ EXCEPT !.left = new_child]
                         ELSE [@ EXCEPT !.right = new_child],
                     !.path[Len(m.path)] = new_child]
        ELSE [m EXCEPT !.root = new_child, !.path = <<new_child>>]
        : m \in {w}})

----------------------------------------------------------------------------
\* RBTree rotations (copy-based: two fresh nodes replace x and y).

\* _left_rotate without its last line: the walker does not follow x.
left_rotate_nofollow(w) ==
    Only({
        IF m.err # OK THEN m
        ELSE LET x == current(m) IN
             IF x = NONE THEN Raise(m, "AttributeError")
             ELSE IF m.heap[x].right = NONE THEN Raise(m, "AssertionError")
             ELSE LET y  == m.heap[x].right
                      X  == m.heap[x]
                      Y  == m.heap[y]
                      nx == Len(m.heap) + 1
                      ny == Len(m.heap) + 2
                      m1 == New(m, RBNode(X.value, X.color, X.left, Y.left))
                      m2 == New(m1, RBNode(Y.value, Y.color, nx, Y.right))
                  IN update(m2, ny)
        : m \in {w}})

\* _left_rotate in the colour-swapping variant: the node on top takes x's
\* colour and the node below takes y's.
left_rotate_recolor(w) ==
    Only({
        IF m.err # OK THEN m
        ELSE LET x == current(m) IN
             IF x = NONE THEN Raise(m, "AttributeError")
             ELSE IF m.heap[x].right = NONE THEN Raise(m, "AssertionError")
             ELSE LET y  == m.heap[x].right
                      X  == m.heap[x]
                      Y  == m.heap[y]
                      nx == Len(m.heap) + 1
                      ny == Len(m.heap) + 2
                      m1 == New(m, RBNode(X.value, Y.color, X.left, Y.left))
                      m2 == New(m1, RBNode(Y.value, X.color, nx, Y.right))
                  IN left(update(m2, ny))
        : m \in {w}})

\* _left_rotate reusing x itself as the left child of y's copy (x is not
\* copied out of the tree).
left_rotate_keepold(w) ==
    Only({
        IF m.err # OK THEN m
        ELSE LET x == current(m) IN
             IF x = NONE THEN Raise(m, "AttributeError")
             ELSE IF m.heap[x].right = NONE THEN Raise(m, "AssertionError")
             ELSE LET y  == m.heap[x].right
                      X  == m.heap[x]
                      Y  == m.heap[y]
                      nx == Len(m.heap) + 1
                      ny == Len(m.heap) + 2
                      m1 == New(m, RBNode(X.value, X.color, X.left, Y.left))
                      m2 == New(m1, RBNode(Y.value, Y.color, x, Y.right))
                  IN left(update(m2, ny))
        : m \in {w}})

left_rotate(w) ==
    Only({
        IF m.err # OK THEN m
        ELSE LET x == current(m) IN
             IF x = NONE THEN Raise(m, "AttributeError")
             ELSE IF m.heap[x].right = NONE THEN Raise(m, "AssertionError")
             ELSE LET y  == m.heap[x].right
                      X  == m.heap[x]
                      Y  == m.heap[y]
                      nx == Len(m.heap) + 1
                      ny == Len(m.heap) + 2
                      m1 == New(m, RBNode(X.value, X.color, X.left, Y.left))
                      m2 == New(m1, RBNode(Y.value, Y.color, nx, Y.right))
                  IN left(update(m2, ny))
        : m \in {w}})

\* right_rotate losing the subtree between x and y (x.right not carried over).
right_rotate_drop(w) ==
    Only({
        IF m.err # OK THEN m
        ELSE LET y == current(m) IN
             IF y = NONE THEN Raise(m, "AttributeError")
             ELSE IF m.heap[y].left = NONE THEN Raise(m, "AssertionError")
             ELSE LET x  == m.heap[y].left
                      X  == m.heap[x]
                      Y  == m.heap[y]
                      ny == Len(m.heap) + 1
                      nx == Len(m.heap) + 2
                      m1 == New(m, RBNode(Y.value, Y.color, NONE, Y.right))
                      m2 == New(m1, RBNode(X.value, X.color, X.left, ny))
                  IN right(update(m2, nx))
        : m \in {w}})

\* _right_rotate in the colour-swapping variant: the node on top takes y's
\* colour and the node below takes x's.
right_rotate_recolor(w) ==
    Only({
        IF m.err # OK THEN m
        ELSE LET y == current(m) IN
             IF y = NONE THEN Raise(m, "AttributeError")
             ELSE IF m.heap[y].left = NONE THEN Raise(m, "AssertionError")
             ELSE LET x  == m.heap[y].left
                      X  == m.heap[x]
                      Y  == m.heap[y]
                      ny == Len(m.heap) + 1
                      nx == Len(m.heap) + 2
                      m1 == New(m, RBNode(Y.value, X.color, X.right, Y.right))
                      m2 == New(m1, RBNode(X.value, Y.color, X.left, ny))
                  IN right(update(m2, nx))
        : m \in {w}})

right_rotate(w) ==
    Only({
        IF m.err # OK THEN m
        ELSE LET y == current(m) IN
             IF y = NONE THEN Raise(m, "AttributeError")
             ELSE IF m.heap[y].left = NONE THEN Raise(m, "AssertionError")
             ELSE LET x  == m.heap[y].left
                      X  == m.heap[x]
                      Y  == m.heap[y]
                      ny == Len(m.heap) + 1
                      nx == Len(m.heap) + 2
                      m1 == New(m, RBNode(Y.value, Y.color, X.right, Y.right))
                      m2 == New(m1, RBNode(X.value, X.color, X.left, ny))
                  IN right(update(m2, nx))
        : m \in {w}})

----------------------------------------------------------------------------
\* RBTree.__contains__: the descent loop, as a recursion on the node reached.

\* The descent with the comparison's operands swapped.
RECURSIVE containsFrom_swapped(_, _, _)
containsFrom_swapped(h, node, value) ==
    IF node = NONE THEN FALSE
    ELSE IF eq(value, h[node].value) THEN TRUE
    ELSE IF lt(h[node].value, value) THEN containsFrom_swapped(h, h[node].left, value)
    ELSE containsFrom_swapped(h, h[node].right, value)

RECURSIVE containsFrom(_, _, _)
containsFrom(h, node, value) ==
    IF node = NONE THEN FALSE
    ELSE IF eq(value, h[node].value) THEN TRUE
    ELSE IF lt(value, h[node].value) THEN containsFrom(h, h[node].left, value)
    ELSE containsFrom(h, h[node].right, value)

contains(m, value) == containsFrom(m.heap, m.root, value)

----------------------------------------------------------------------------
\* RBTree.invariant.  bpbalance's None result is the sentinel -1.

\* bpbalance without its comparison of the two subtrees' counts.
RECURSIVE bpbalance_nocompare(_, _)
bpbalance_nocompare(h, node) ==
    IF node = NONE THEN 1
    ELSE LET l == bpbalance_nocompare(h, h[node].left) IN
         IF l = -1 THEN -1
         ELSE LET r == bpbalance_nocompare(h, h[node].right) IN
              IF r = -1 THEN -1
              ELSE l + (IF h[node].color = BLACK THEN 1 ELSE 0)

RECURSIVE bpbalance(_, _)
bpbalance(h, node) ==
    IF node = NONE THEN 1
    ELSE LET l == bpbalance(h, h[node].left) IN
         IF l = -1 THEN -1
         ELSE LET r == bpbalance(h, h[node].right) IN
              IF r = -1 THEN -1
              ELSE IF l # r THEN -1
              ELSE l + (IF h[node].color = BLACK THEN 1 ELSE 0)

invariant(m) ==
    LET h == m.heap IN
    IF m.root = NONE THEN TRUE
    ELSE IF h[m.root].color = RED THEN FALSE
    ELSE LET ns == nodes(h, m.root) IN
         IF \E i \in 1..Len(ns) :
               /\ h[ns[i]].color = RED
               /\ \E ch \in {h[ns[i]].left, h[ns[i]].right} :
                     ch # NONE /\ h[ch].color = RED
         THEN FALSE
         ELSE bpbalance(h, m.root) # -1

----------------------------------------------------------------------------
\* RBTree._insert_fix: the six match arms on the node g under the cursor
\* after z.up().up(), with c the node the iteration started on.

IsBlackOrNone(h, n) == n = NONE \/ h[n].color = BLACK

Case1(h, g, c) ==
    /\ g # NONE /\ h[g].left # NONE /\ h[g].right # NONE
    /\ h[h[g].right].color = RED
    /\ c \in {h[h[g].left].left, h[h[g].left].right}

Case2(h, g, c) ==
    /\ g # NONE /\ h[g].left # NONE
    /\ IsBlackOrNone(h, h[g].right)
    /\ c = h[h[g].left].right

Case3(h, g, c) ==
    /\ g # NONE /\ h[g].left # NONE
    /\ IsBlackOrNone(h, h[g].right)
    /\ c = h[h[g].left].left

Case1p(h, g, c) ==
    /\ g # NONE /\ h[g].right # NONE /\ h[g].left # NONE
    /\ h[h[g].left].color = RED
    /\ c \in {h[h[g].right].left, h[h[g].right].right}

Case2p(h, g, c) ==
    /\ g # NONE /\ h[g].right # NONE
    /\ IsBlackOrNone(h, h[g].left)
    /\ c = h[h[g].right].left

\* Case 3' guarded by the wrong child (c is l, as in Case 2').
Case3p_wrongside(h, g, c) ==
    /\ g # NONE /\ h[g].right # NONE
    /\ IsBlackOrNone(h, h[g].left)
    /\ c = h[h[g].right].left

Case3p(h, g, c) ==
    /\ g # NONE /\ h[g].right # NONE
    /\ IsBlackOrNone(h, h[g].left)
    /\ c = h[h[g].right].right

\* The arms in source order: 1, 2, 3 are Cases 1, 2, 3; 4, 5, 6 are 1', 2', 3'.
Arms == 1..6

Pattern(i, h, g, c) ==
    CASE i = 1 -> Case1(h, g, c)
      [] i = 2 -> Case2(h, g, c)
      [] i = 3 -> Case3(h, g, c)
      [] i = 4 -> Case1p(h, g, c)
      [] i = 5 -> Case2p(h, g, c)
      [] i = 6 -> Case3p(h, g, c)

Matching(h, g, c) == {i \in Arms : Pattern(i, h, g, c)}

\* match takes the first arm whose pattern and guard hold; 0: none does.
FirstArm(h, g, c) ==
    Only({IF s = {} THEN 0 ELSE CHOOSE i \in s : \A j \in s : i <= j
          : s \in {Matching(h, g, c)}})

set_color(m, n, col) == [m EXCEPT !.heap[n].color = col]

\* The arms with Case 2 and Case 2' rotating at the grandparent (no z.left() /
\* z.right() before the rotation).
ArmBody_nostep(i, m) ==
    LET g == current(m)
        h == m.heap
    IN CASE i = 1 -> set_color(set_color(set_color(m, h[g].left, BLACK),
                                         h[g].right, BLACK), g, RED)
         [] i = 2 -> left_rotate(m)
         [] i = 3 -> right_rotate(set_color(set_color(m, h[g].left, BLACK), g, RED))
         [] i = 4 -> set_color(set_color(set_color(m, h[g].right, BLACK),
                                         h[g].left, BLACK), g, RED)
         [] i = 5 -> right_rotate(m)
         [] i = 6 -> left_rotate(set_color(set_color(m, h[g].right, BLACK), g, RED))
         [] OTHER -> m

\* The arms with Case 3 and Case 3' leaving the grandparent's colour alone.
ArmBody_norecolor(i, m) ==
    LET g == current(m)
        h == m.heap
    IN CASE i = 1 -> set_color(set_color(set_color(m, h[g].left, BLACK),
                                         h[g].right, BLACK), g, RED)
         [] i = 2 -> left_rotate(left(m))
         [] i = 3 -> right_rotate(set_color(m, h[g].left, BLACK))
         [] i = 4 -> set_color(set_color(set_color(m, h[g].right, BLACK),
                                         h[g].left, BLACK), g, RED)
         [] i = 5 -> right_rotate(right(m))
         [] i = 6 -> left_rotate(set_color(m, h[g].right, BLACK))
         [] OTHER -> m

\* The arms with Case 1 and Case 1' leaving the uncle's colour alone.
ArmBody_nouncle(i, m) ==
    LET g == current(m)
        h == m.heap
    IN CASE i = 1 -> set_color(set_color(m, h[g].left, BLACK), g, RED)
         [] i = 2 -> left_rotate(left(m))
         [] i = 3 -> right_rotate(set_color(set_color(m, h[g].left, BLACK), g, RED))
         [] i = 4 -> set_color(set_color(m, h[g].right, BLACK), g, RED)
         [] i = 5 -> right_rotate(right(m))
         [] i = 6 -> left_rotate(set_color(set_color(m, h[g].right, BLACK), g, RED))
         [] OTHER -> m

\* The arms with Case 1 and Case 1' leaving the grandparent BLACK.
ArmBody_keepblack(i, m) ==
    LET g == current(m)
        h == m.heap
    IN CASE i = 1 -> set_color(set_color(m, h[g].left, BLACK), h[g].right, BLACK)
         [] i = 2 -> left_rotate(left(m))
         [] i = 3 -> right_rotate(set_color(set_color(m, h[g].left, BLACK), g, RED))
         [] i = 4 -> set_color(set_color(m, h[g].right, BLACK), h[g].left, BLACK)
         [] i = 5 -> right_rotate(right(m))
         [] i = 6 -> left_rotate(set_color(set_color(m, h[g].right, BLACK), g, RED))
         [] OTHER -> m

ArmBody(i, m) ==
    LET g == current(m)
        h == m.heap
    IN CASE i = 1 -> set_color(set_color(set_color(m, h[g].left, BLACK),
                                         h[g].right, BLACK), g, RED)
         [] i = 2 -> left_rotate(left(m))
         [] i = 3 -> right_rotate(set_color(set_color(m, h[g].left, BLACK), g, RED))
         [] i = 4 -> set_color(set_color(set_color(m, h[g].right, BLACK),
                                         h[g].left, BLACK), g, RED)
         [] i = 5 -> right_rotate(right(m))
         [] i = 6 -> left_rotate(set_color(set_color(m, h[g].right, BLACK), g, RED))
         [] OTHER -> m

\* The walker and tree on which arm i calls its rotation: after z.left() /
\* z.right() (Case 2 / 2') or after the two colour assignments (Case 3 / 3').
RotateArg(i, m) ==
    LET g == current(m)
        h == m.heap
    IN CASE i = 2 -> left(m)
         [] i = 3 -> set_color(set_color(m, h[g].left, BLACK), g, RED)
         [] i = 5 -> right(m)
         [] i = 6 -> set_color(set_color(m, h[g].right, BLACK), g, RED)
         [] OTHER -> m

\* The cursor after z.up().up() of one iteration.
Lifted(m) == up(up(m))

\* The arm one iteration started in m applies (0: an error, or no arm).
ArmOf(m) ==
    Only({IF m2.err # OK THEN 0 ELSE FirstArm(m2.heap, current(m2), current(m))
          : m2 \in {Lifted(m)}})

\* One iteration of the while loop's body.
insert_fix_iter(m) ==
    Only({IF m2.err # OK THEN m2 ELSE ArmBody(i, m2)
          : m2 \in {Lifted(m)}, i \in {ArmOf(m)}})

\* A loop that never runs: no fixup after the attach.
LoopCond_never(m) == FALSE

\* The while loop's condition (evaluated only where parent() is a node).
LoopCond(m) == ~is_root(m) /\ m.heap[parent(m)].color = RED

----------------------------------------------------------------------------
\* The state machine: add(value) runs as a sequence of steps, one per loop
\* iteration of the descent and of the fixup.

Store(m) ==
    /\ heap' = m.heap
    /\ root' = m.root
    /\ path' = m.path
    /\ leaf_direction' = m.leaf_direction
    /\ err' = m.err

Next_pc(m, p) == IF m.err = OK THEN p ELSE "error"

Init ==
    /\ heap = << >>
    /\ root = NONE
    /\ path = << >>
    /\ leaf_direction = LEFT
    /\ err = OK
    /\ pc = "idle"
    /\ z = NONE
    /\ added = << >>
    /\ arm = 0
    /\ gp = NONE
    /\ iters = 0
    /\ rotations = 0
    /\ sides = << >>
    /\ updates = 0

\* add, up to the loop: z = RBNode(value, RED); w = NodeWalker(self).
AddBegin(k) ==
    /\ pc = "idle"
    /\ Len(added) < MaxAdds
    /\ LET value == [key |-> k, tag |-> Len(added) + 1]
           m == NodeWalker(New(M, RBNode(value, RED, NONE, NONE)))
       IN /\ Store(m)
          /\ z' = Len(heap) + 1
          /\ added' = Append(added, value)
    /\ pc' = "descend"
    /\ arm' = 0
    /\ gp' = NONE
    /\ iters' = 0
    /\ rotations' = 0
    /\ UNCHANGED <<sides, updates>>

\* The descent without its else branch's w.right(): the walker stays put.
descend_stuck(m, zn) ==
    IF lt(m.heap[zn].value, m.heap[current(m)].value) THEN left(m) ELSE m

\* The descent with the comparison inverted (node.value < z.value goes left).
descend_inverted(m, zn) ==
    IF lt(m.heap[current(m)].value, m.heap[zn].value) THEN left(m) ELSE right(m)

\* The descent sending ties to the left (z.value <= node.value goes left).
descend_ties_left(m, zn) ==
    IF ~lt(m.heap[current(m)].value, m.heap[zn].value) THEN left(m) ELSE right(m)

\* One iteration of add's while loop.
descend(m, zn) ==
    IF lt(m.heap[zn].value, m.heap[current(m)].value) THEN left(m) ELSE right(m)

DescendStep ==
    /\ pc = "descend"
    /\ current(M) # NONE
    /\ \E m \in {descend(M, z)} : Store(m) /\ pc' = Next_pc(m, "descend")
    /\ UNCHANGED <<z, added, arm, gp, iters, rotations, sides, updates>>

\* The loop ends on an empty slot: w.update(z), then _insert_fix starts.
Attach ==
    /\ pc = "descend"
    /\ current(M) = NONE
    /\ \E m \in {update(M, z)} : Store(m) /\ pc' = Next_pc(m, "fix")
    /\ UNCHANGED <<z, added, arm, gp, iters, rotations, sides, updates>>

\* The loop condition holds, or its evaluation raises.
LoopEnters(m) == ~is_root(m) /\ (parent(m) = NONE \/ LoopCond(m))

\* One iteration of _insert_fix.
FixStep ==
    /\ pc = "fix"
    /\ LoopEnters(M)
    /\ \E m \in {IF parent(M) = NONE THEN Raise(M, "AttributeError")
                  ELSE insert_fix_iter(M)} :
          /\ Store(m)
          /\ pc' = Next_pc(m, "fix")
          /\ rotations' = rotations + ((Len(m.heap) - Len(heap)) \div 2)
    /\ arm' = ArmOf(M)
    /\ \E m2 \in {Lifted(M)} : gp' = IF m2.err = OK THEN current(m2) ELSE NONE
    /\ iters' = iters + 1
    /\ UNCHANGED <<z, added, sides, updates>>

\* The loop condition is false: self.root.color = BLACK, and add returns.
blacken_root(m) ==
    IF m.root = NONE THEN Raise(m, "AttributeError")
    ELSE set_color(m, m.root, BLACK)

FixDone ==
    /\ pc = "fix"
    /\ ~LoopEnters(M)
    /\ \E m \in {blacken_root(M)} :
          /\ Store([m EXCEPT !.path = << >>, !.leaf_direction = LEFT])
          /\ pc' = Next_pc(m, "idle")
    /\ arm' = 0
    /\ UNCHANGED <<z, added, gp, iters, rotations, sides, updates>>

Running == DescendStep \/ Attach \/ FixStep \/ FixDone

Next == (\E k \in 1..MaxVal : AddBegin(k)) \/ Running

Spec == Init /\ [][Next]_vars

\* add is a synchronous call: once started it runs to its return.
FairSpec == Spec /\ WF_vars(Running)

----------------------------------------------------------------------------
\* Vocabulary of the properties.

\* add has returned (and at least one add was made).
Returned == pc = "idle" /\ added # << >>

Range(s) == {s[i] : i \in 1..Len(s)}

\* The nodes reachable from the root.
Reach == Range(nodes(heap, root))

\* The numbers of BLACK nodes on the paths from n down to absent-child positions.
RECURSIVE BlackCounts(_, _)
BlackCounts(h, n) ==
    IF n = NONE THEN {0}
    ELSE LET b == IF h[n].color = BLACK THEN 1 ELSE 0
         IN {b + k : k \in BlackCounts(h, h[n].left) \cup BlackCounts(h, h[n].right)}

RootBlack == root # NONE => heap[root].color = BLACK

IsRed(n) == n # NONE /\ heap[n].color = RED

NoRedRed == \A n \in Reach : IsRed(n) => ~IsRed(heap[n].left) /\ ~IsRed(heap[n].right)

BlackBalanced == \A n \in Reach : Cardinality(BlackCounts(heap, n)) = 1

\* The values the tree yields, in iteration order.
Yielded == iter(heap, root)

----------------------------------------------------------------------------
\* C1: after every add returns the tree satisfies the red-black invariant that
\* invariant() tests: the root is BLACK, no RED node has a RED child, and
\* every node has the same number of BLACK nodes on all its paths down to
\* absent-child positions.
RedBlackAfterAdd ==
    Returned => invariant(M) /\ RootBlack /\ NoRedRed /\ BlackBalanced

\* An add that went through Case 2 and Case 3 has returned on a tree of 7 or more.
RedBlackAfterAddWitness ==
    Returned /\ Len(added) >= 7 /\ rotations = 2 /\ iters = 3

\* C2: after any sequence of adds, iteration yields the values in
\* non-decreasing order and yields exactly the added occurrences, each once.
SortedAndComplete ==
    Returned =>
        \A y \in {Yielded} :
            /\ \A i \in 1..(Len(y) - 1) : ~lt(y[i + 1], y[i])
            /\ Len(y) = Len(added)
            /\ Range(y) = Range(added)

\* A tree with a repeated key, rebuilt by a rotation with non-empty subtrees.
SortedAndCompleteWitness ==
    /\ Returned /\ rotations >= 1 /\ iters >= 2
    /\ \E i, j \in 1..Len(added) : i < j /\ eq(added[i], added[j])

\* C3: v in tree is True for every added value, at once and after any further
\* adds, and False for every value never added.
MembershipMatches ==
    Returned =>
        \A k \in 1..MaxVal :
            contains(M, [key |-> k, tag |-> 0]) <=> (\E i \in 1..Len(added) : added[i].key = k)

\* Some key is found after later adds rotated, and some key is reported absent.
MembershipMatchesWitness ==
    /\ Returned /\ Len(added) >= 5 /\ rotations >= 1
    /\ contains(M, added[1])
    /\ \E k \in 1..MaxVal : ~contains(M, [key |-> k, tag |-> 0])

\* C4 (as stated): after every completed add, at every node each value of the
\* left subtree is strictly less than the node's value and no value of the
\* right subtree is less than the node's value.
SearchOrderStrict ==
    Returned =>
        \A n \in Reach :
            /\ \A v \in Range(iter(heap, heap[n].left)) : lt(v, heap[n].value)
            /\ \A v \in Range(iter(heap, heap[n].right)) : ~lt(v, heap[n].value)

\* C4 (amended): after every completed add, at every node each value of the
\* left subtree is less than or equal to the node's value and no value of the
\* right subtree is less than the node's value.
SearchOrder ==
    Returned =>
        \A n \in Reach :
            /\ \A v \in Range(iter(heap, heap[n].left)) : ~lt(heap[n].value, v)
            /\ \A v \in Range(iter(heap, heap[n].right)) : ~lt(v, heap[n].value)

\* A rotation has moved a value into the left subtree of a node with an equal value.
SearchOrderWitness ==
    /\ Returned
    /\ \E n \in Reach :
          \E v \in Range(iter(heap, heap[n].left)) : eq(v, heap[n].value)

\* C5: after n >= 1 adds the depth d of the root satisfies 2^d <= (n+1)^2.
DepthBound ==
    Returned => 2 ^ depth(heap, root) <= (Len(added) + 1) ^ 2

\* A tree of depth 4 or more that the last add rebalanced by a rotation.
DepthBoundWitness ==
    Returned /\ depth(heap, root) >= 4 /\ rotations >= 1

\* C6: no add ever raises: no NodeWalker operation fails, no assertion of
\* update or of the rotations fails, and self.root is a node when it is
\* coloured BLACK.
NeverRaises == err = OK /\ pc # "error"

\* Mid-fixup, after a rotation below the root and two or more iterations.
NeverRaisesWitness ==
    pc = "fix" /\ iters >= 2 /\ rotations >= 1 /\ Len(path) >= 3 /\ err = OK

\* C7: equal values appear in the in-order sequence in the order in which
\* they were added (at every step: rotations never reorder them).
DuplicatesStable ==
    \A y \in {Yielded} :
        \A i, j \in 1..Len(y) : i < j /\ eq(y[i], y[j]) => y[i].tag < y[j].tag

\* Three or more occurrences of one key in a tree the last add rotated.
DuplicatesStableWitness ==
    /\ Returned /\ rotations >= 1
    /\ \E k \in 1..MaxVal : Cardinality({i \in 1..Len(added) : added[i].key = k}) >= 3

\* C8: every add terminates: the descent reaches an empty slot and the fixup
\* loop reaches its terminal condition, and each Case 1 / Case 1' iteration
\* leaves the cursor path exactly two entries shorter.
AddTerminates ==
    /\ (pc = "descend") ~> (pc = "fix")
    /\ (pc = "fix") ~> (pc = "idle")
    /\ [][iters' = iters + 1 /\ arm' \in {1, 4} => Len(path') = Len(path) - 2]_vars

\* A Case 1 / Case 1' iteration below the root was the last one: the loop
\* condition is false on a non-root cursor.
AddTerminatesWitness ==
    pc = "fix" /\ arm \in {1, 4} /\ ~is_root(M) /\ ~LoopEnters(M)

\* C9: in every iteration of the fixup loop, after the cursor has moved up to
\* the grandparent exactly one of the six match arms applies.
ExactlyOneArm ==
    pc = "fix" /\ LoopEnters(M) =>
        /\ parent(M) # NONE
        /\ Lifted(M).err = OK
        /\ Cardinality(Matching(heap, current(Lifted(M)), current(M))) = 1

\* The loop is entered again after an earlier iteration recoloured (Case 1 / 1').
ExactlyOneArmWitness ==
    pc = "fix" /\ LoopEnters(M) /\ iters >= 1 /\ arm \in {1, 4}

\* C10: an iteration applying Case 2 (Case 2') is followed by an iteration
\* applying Case 3 (Case 3') at the same grandparent; after Case 3 or Case 3'
\* the loop condition is false; one add performs at most two rotations.
CaseOrder ==
    [][/\ (pc = "fix" /\ arm = 2 => arm' = 3 /\ gp' = gp)
       /\ (pc = "fix" /\ arm = 5 => arm' = 6 /\ gp' = gp)
       /\ (pc' = "fix" /\ arm' \in {3, 6} => ~LoopEnters(M)')
       /\ rotations' <= 2]_vars

\* Case 3 / Case 3' just ran as the third iteration, after two rotations.
CaseOrderWitness ==
    pc = "fix" /\ arm \in {3, 6} /\ iters = 3 /\ rotations = 2

\* C11: at every evaluation of the fixup loop's condition (a) the node under
\* the cursor is RED, (b) every node has equal numbers of BLACK nodes on all
\* its paths down to absent-child positions, (c) the only RED node with a RED
\* child, if any, is the cursor's parent, with the cursor's node as that
\* child, and (d) the root is BLACK unless the cursor is at the root.
FixLoopInvariant ==
    pc = "fix" =>
        /\ IsRed(current(M))
        /\ BlackBalanced
        /\ \A n \in Reach : \A c \in {heap[n].left, heap[n].right} :
              IsRed(n) /\ IsRed(c) => ~is_root(M) /\ n = parent(M) /\ c = current(M)
        /\ is_root(M) \/ RootBlack

\* The condition is evaluated after a Case 1 / Case 1' iteration left a RED
\* grandparent under a RED parent, below a BLACK root.
FixLoopInvariantWitness ==
    /\ pc = "fix" /\ arm \in {1, 4} /\ Len(path) >= 3
    /\ IsRed(parent(M)) /\ IsRed(current(M)) /\ RootBlack

----------------------------------------------------------------------------
\* The values and colours of the tree under r, in iteration order.
Colored(h, r) ==
    LET ns == nodes(h, r)
    IN [i \in 1..Len(ns) |-> <<h[ns[i]].value, h[ns[i]].color>>]

\* Node n is, in post, in the slot that the cursor's node occupies in pre,
\* and nothing else of that slot's owner differs.
InSlotOf(pre, post, n) ==
    IF is_root(pre) THEN post.root = n
    ELSE LET p == parent(pre) IN
         /\ post.root = pre.root
         /\ post.heap[p] = IF pre.heap[p].left = current(pre)
                           THEN [pre.heap[p] EXCEPT !.left = n]
                           ELSE [pre.heap[p] EXCEPT !.right = n]

LeftRotated(pre, post) ==
    LET h == pre.heap
        x == current(pre)
        y == h[x].right
        nx == current(post)
        ny == parent(post)
    IN /\ post.err = OK
       /\ Len(post.path) = Len(pre.path) + 1
       /\ InSlotOf(pre, post, ny)
       /\ post.heap[ny] = RBNode(h[y].value, h[y].color, nx, h[y].right)
       /\ post.heap[nx] = RBNode(h[x].value, h[x].color, h[x].left, h[y].left)
       /\ Colored(post.heap, post.root) = Colored(h, pre.root)

RightRotated(pre, post) ==
    LET h == pre.heap
        y == current(pre)
        x == h[y].left
        ny == current(post)
        nx == parent(post)
    IN /\ post.err = OK
       /\ Len(post.path) = Len(pre.path) + 1
       /\ InSlotOf(pre, post, nx)
       /\ post.heap[nx] = RBNode(h[x].value, h[x].color, h[x].left, ny)
       /\ post.heap[ny] = RBNode(h[y].value, h[y].color, h[x].right, h[y].right)
       /\ Colored(post.heap, post.root) = Colored(h, pre.root)

\* C12: _left_rotate with the cursor at X, whose right child is Y, puts a
\* node with Y's value and colour in X's slot, with a left child carrying X's
\* value and colour over X's former left and Y's former left subtrees, and
\* Y's former right subtree as right child; the in-order sequence of values
\* and every colour are unchanged and the cursor ends on the node carrying
\* X's value.  _right_rotate is the mirror image.  (Checked on every rotation
\* a fixup iteration performs.)
RotationResult ==
    pc = "fix" /\ LoopEnters(M) /\ parent(M) # NONE =>
        \A i \in {ArmOf(M)} : \A pre \in {RotateArg(i, Lifted(M))} :
            /\ i \in {2, 6} =>
                  \A post \in {left_rotate(pre)} :
                      LeftRotated(pre, post) /\ insert_fix_iter(M) = post
            /\ i \in {3, 5} =>
                  \A post \in {right_rotate(pre)} :
                      RightRotated(pre, post) /\ insert_fix_iter(M) = post

\* A left rotation is due below the root, at a node whose left subtree and
\* whose right child's left subtree are both non-empty.
RotationResultWitness ==
    /\ pc = "fix" /\ LoopEnters(M) /\ ArmOf(M) \in {2, 6}
    /\ \E pre \in {RotateArg(ArmOf(M), Lifted(M))} :
          /\ ~is_root(pre)
          /\ pre.heap[current(pre)].left # NONE
          /\ pre.heap[pre.heap[current(pre)].right].left # NONE

----------------------------------------------------------------------------
\* C13: an iteration applying Case 1 or Case 1' changes exactly three
\* colours (parent and uncle become BLACK, the grandparent RED) and nothing
\* else: every child pointer, every value, every other colour and the root
\* are unchanged, no node is created (no rotation), and the cursor ends on
\* the grandparent, its path two entries shorter.
RecolourFrame ==
    [][iters' = iters + 1 /\ arm' \in {1, 4} =>
         LET g == path[Len(path) - 2] IN
         /\ root' = root
         /\ rotations' = rotations
         /\ Len(heap') = Len(heap)
         /\ \A n \in 1..Len(heap) :
               heap'[n] = [heap[n] EXCEPT !.color =
                              IF n \in {heap[g].left, heap[g].right} THEN BLACK
                              ELSE IF n = g THEN RED
                              ELSE @]
         /\ heap[heap[g].left].color = RED /\ heap[heap[g].right].color = RED
         /\ heap[g].color = BLACK
         /\ path' = SubSeq(path, 1, Len(path) - 2)
         /\ err' = OK
      ]_vars

\* Case 1' has just recoloured below the root: the cursor is on the RED
\* grandparent, over two BLACK children.
RecolourFrameWitness ==
    /\ pc = "fix" /\ arm = 4 /\ current(M) = gp /\ ~is_root(M)
    /\ IsRed(gp) /\ ~IsRed(heap[gp].left) /\ ~IsRed(heap[gp].right)

----------------------------------------------------------------------------
\* add as one call: the descent loop, the attach, _insert_fix.

RECURSIVE descend_loop(_, _)
descend_loop(m, zn) ==
    IF m.err # OK \/ current(m) = NONE THEN m
    ELSE descend_loop(descend(m, zn), zn)

RECURSIVE insert_fix(_)
insert_fix(m) ==
    IF m.err # OK THEN m
    ELSE IF LoopEnters(m)
    THEN insert_fix(IF parent(m) = NONE THEN Raise(m, "AttributeError")
                    ELSE insert_fix_iter(m))
    ELSE blacken_root(m)

add(m, value) ==
    LET zn == Len(m.heap) + 1
        w == NodeWalker(New(m, RBNode(value, RED, NONE, NONE)))
    IN insert_fix(update(descend_loop(w, zn), zn))

\* RBTree(): the empty tree.
EmptyTree ==
    [heap |-> << >>, root |-> NONE, path |-> << >>,
     leaf_direction |-> LEFT, err |-> OK]

\* The tree after add(s[1]), ..., add(s[Len(s)]) on m.
RECURSIVE AddAll(_, _)
AddAll(m, s) == IF s = << >> THEN m ELSE AddAll(add(m, Head(s)), Tail(s))

\* Adds of pairwise distinct keys.
AddDistinct(k) ==
    /\ \A i \in 1..Len(added) : added[i].key # k
    /\ AddBegin(k)

NextDistinct == (\E k \in 1..MaxKeys : AddDistinct(k)) \/ Running

DistinctSpec == Init /\ [][NextDistinct]_vars

\* The tree under n: its shape, keys and colours.
RECURSIVE Tree(_, _)
Tree(h, n) ==
    IF n = NONE THEN << >>
    ELSE <<h[n].value.key, h[n].color, Tree(h, h[n].left), Tree(h, h[n].right)>>

\* The order-reversing relabelling of the keys (as negation does).
Reversed(k) == MaxKeys + 1 - k

\* The mirror image of the tree under n, over the relabelled keys.
RECURSIVE Mirror(_, _)
Mirror(h, n) ==
    IF n = NONE THEN << >>
    ELSE <<Reversed(h[n].value.key), h[n].color,
           Mirror(h, h[n].right), Mirror(h, h[n].left)>>

\* C14: for every sequence of pairwise distinct values, adding the same
\* sequence under the reversed order (the keys relabelled by an
\* order-reversing map) yields exactly the mirror image of the tree: the
\* shape mirrored, corresponding values, identical colours.
MirrorSymmetry ==
    Returned =>
        \A m \in {AddAll(EmptyTree,
                          [i \in 1..Len(added) |->
                              [key |-> Reversed(added[i].key), tag |-> i]])} :
            /\ m.err = OK
            /\ Tree(m.heap, m.root) = Mirror(heap, root)

\* Five distinct keys were added, the last add rotated, and the tree is
\* lopsided: its mirror image has another shape.
MirrorSymmetryWitness ==
    /\ Returned /\ Len(added) >= 5 /\ rotations >= 1
    /\ depth(heap, heap[root].left) # depth(heap, heap[root].right)

----------------------------------------------------------------------------
\* The walker's path is a path of the tree: it starts at the root and every
\* further entry is a child (or an absent-child slot) of the entry before it.
PathOK(m) ==
    /\ m.path # << >>
    /\ m.path[1] = m.root
    /\ \A i \in 1..(Len(m.path) - 1) :
          /\ m.path[i] # NONE
          /\ m.path[i + 1] \in {m.heap[m.path[i]].left, m.heap[m.path[i]].right}

\* C15: at every step of every add the cursor path is consistent with the
\* tree: path[0] is the current root and each later entry is the current
\* left or right child (or an absent slot) of the entry before it; the path
\* never refers to a node that a rotation replaced and that is no longer
\* reachable.  (Checked after every step, and inside an iteration after
\* z.up().up() and on the walker handed to the rotation.)
PathConsistent ==
    pc \in {"descend", "fix"} =>
        /\ PathOK(M)
        /\ \A n \in Range(path) : n # NONE => n \in Reach
        /\ pc = "fix" /\ LoopEnters(M) /\ parent(M) # NONE =>
              \A m2 \in {Lifted(M)} :
                  /\ PathOK(m2)
                  /\ PathOK(RotateArg(ArmOf(M), m2))

\* Case 2 has just rotated below the root: the cursor is on a copy made by
\* the rotation, four or more entries deep.
PathConsistentWitness ==
    pc = "fix" /\ arm = 2 /\ Len(path) >= 4 /\ current(M) > z

----------------------------------------------------------------------------
\* The nodes reachable from the nodes of S by child references.
RECURSIVE ReachFrom(_, _)
ReachFrom(h, S) ==
    LET T == S \cup {c \in UNION {{h[n].left, h[n].right} : n \in S} : c # NONE}
    IN IF T = S THEN S ELSE ReachFrom(h, T)

ReachOf(m) == ReachFrom(m.heap, {m.root} \ {NONE})

\* The child slots of reachable nodes that refer to node n.
Owners(m, n) ==
    {s \in ReachOf(m) \X {LEFT, RIGHT} :
        n = IF s[2] = LEFT THEN m.heap[s[1]].left ELSE m.heap[s[1]].right}

\* C16: the nodes reachable from the root form a tree: no node is the child
\* of two nodes or both children of one node, and there is no cycle (the
\* root is nobody's child and every other reachable node is referred to by
\* exactly one child slot); after each rotation the two node objects that
\* the rotation replaced by copies are no longer reachable from the root.
SingleOwner ==
    /\ \A n \in ReachOf(M) : Cardinality(Owners(M, n)) = IF n = root THEN 0 ELSE 1
    /\ pc = "fix" /\ LoopEnters(M) /\ parent(M) # NONE =>
          \A i \in {ArmOf(M)} : \A pre \in {RotateArg(i, Lifted(M))} :
              \A x \in {current(pre)} :
                  /\ i \in {2, 6} =>
                        {x, pre.heap[x].right} \cap ReachOf(insert_fix_iter(M)) = {}
                  /\ i \in {3, 5} =>
                        {x, pre.heap[x].left} \cap ReachOf(insert_fix_iter(M)) = {}

\* After two rotations in one add, replaced nodes are unreachable but still
\* refer to nodes of the tree.
SingleOwnerWitness ==
    /\ pc = "fix" /\ rotations = 2
    /\ \E n \in (1..Len(heap)) \ Reach :
          heap[n].left \in Reach /\ heap[n].right \in Reach

----------------------------------------------------------------------------
\* A client's walker: NodeWalker(t) and any sequence of calls of its methods,
\* on a tree the client builds through update.  A call that raises leaves
\* its exception in err; the client catches it and goes on.

\* The objects as the next call finds them (the last exception was caught).
M0 == [M EXCEPT !.err = OK]

\* parent(), is_left_child(), is_right_child() as calls: they raise at the
\* root and assign nothing.
parent_call(m) == IF Len(m.path) <= 1 THEN Raise(m, "ValueError") ELSE m

child_query(m) == IF is_root(m) THEN Raise(m, "ValueError") ELSE m

WStore(m) == Store(m) /\ pc' = "walk" /\ UNCHANGED <<z, added, arm, gp, iters, rotations>>

WNew ==
    /\ pc \in {"idle", "walk"}
    /\ WStore(NodeWalker(M0))
    /\ sides' = << >>
    /\ UNCHANGED updates

WUp ==
    /\ pc = "walk"
    /\ \E m \in {up(M0)} :
          /\ WStore(m)
          /\ sides' = IF m.err = OK THEN SubSeq(sides, 1, Len(sides) - 1) ELSE sides
    /\ UNCHANGED updates

WLeft ==
    /\ pc = "walk"
    /\ \E m \in {left(M0)} :
          /\ WStore(m)
          /\ sides' = IF m.err = OK THEN Append(sides, LEFT) ELSE sides
    /\ UNCHANGED updates

WRight ==
    /\ pc = "walk"
    /\ \E m \in {right(M0)} :
          /\ WStore(m)
          /\ sides' = IF m.err = OK THEN Append(sides, RIGHT) ELSE sides
    /\ UNCHANGED updates

\* update(None)
WUpdateNone ==
    /\ pc = "walk"
    /\ updates < MaxUpdates
    /\ WStore(update(M0, NONE))
    /\ updates' = updates + 1
    /\ UNCHANGED sides

\* update(RBNode(value, color)) with a fresh node
WUpdateNode ==
    /\ pc = "walk"
    /\ updates < MaxUpdates
    /\ LET value == [key |-> 1, tag |-> Len(heap) + 1]
       IN WStore(update(New(M0, RBNode(value, RED, NONE, NONE)), Len(heap) + 1))
    /\ updates' = updates + 1
    /\ UNCHANGED sides

WParent ==
    /\ pc = "walk"
    /\ WStore(parent_call(M0))
    /\ UNCHANGED <<sides, updates>>

WIsLeftChild ==
    /\ pc = "walk"
    /\ WStore(child_query(M0))
    /\ UNCHANGED <<sides, updates>>

WIsRightChild ==
    /\ pc = "walk"
    /\ WStore(child_query(M0))
    /\ UNCHANGED <<sides, updates>>

NextWalk ==
    \/ WNew \/ WUp \/ WLeft \/ WRight \/ WUpdateNone \/ WUpdateNode
    \/ WParent \/ WIsLeftChild \/ WIsRightChild

WalkSpec == Init /\ [][NextWalk]_vars

\* The side by which the cursor's position was entered.
CursorSide == sides[Len(sides)]

\* update(new) on pre gives post: one slot is written (tree.root at the
\* root, otherwise the slot of the cursor's parent by which the cursor was
\* entered) and the path's last entry is replaced; nothing else differs.
Updated(pre, new, post) ==
    IF is_root(pre) THEN post = [pre EXCEPT !.root = new, !.path = <<new>>]
    ELSE LET p == parent(pre) IN
         post = [pre EXCEPT
                   !.heap[p] = IF CursorSide = LEFT THEN [@ EXCEPT !.left = new]
                               ELSE [@ EXCEPT !.right = new],
                   !.path[Len(pre.path)] = new]

\* C17 (as stated): update(new) changes exactly one slot.  At the root it
\* sets tree.root to new and the path to [new]; otherwise it sets the child
\* pointer of the cursor's parent on the side the cursor occupies and
\* replaces the last path entry, leaving the parent's other child, every
\* other node's fields, tree.root and the earlier path entries unchanged.
UpdateFrame ==
    pc = "walk" =>
        /\ Updated(M0, NONE, update(M0, NONE))
        /\ \A m \in {New(M0, RBNode([key |-> 1, tag |-> 0], RED, NONE, NONE))} :
              Updated(m, Len(heap) + 1, update(m, Len(heap) + 1))

\* C18 (as stated): at every non-root cursor position reached from a fresh
\* NodeWalker by successful left(), right(), up() and update(x) calls, x a
\* fresh node or None, exactly one of is_left_child() and is_right_child()
\* is True and it names the slot of the parent that the cursor occupies;
\* on the empty marker the answer is the side most recently descended into.
SideQueries ==
    pc = "walk" /\ ~is_root(M) =>
        /\ is_left_child(M0) # is_right_child(M0)
        /\ is_left_child(M0) <=> CursorSide = LEFT
        /\ is_right_child(M0) <=> CursorSide = RIGHT

\* The call raised and nothing but the pending exception differs.
Raised(m) == m.err # OK /\ [m EXCEPT !.err = OK] = M0

\* C19: up(), parent(), is_left_child() and is_right_child() at the root
\* and left() and right() on the empty marker each raise and leave the
\* walker's path and leaf_direction and the tree unchanged.
ErrorsChangeNothing ==
    /\ [](pc = "walk" =>
            /\ is_root(M0) =>
                  /\ Raised(up(M0))
                  /\ Raised(parent_call(M0))
                  /\ Raised(child_query(M0))
            /\ current(M0) = NONE => Raised(left(M0)) /\ Raised(right(M0))
            /\ ~is_root(M0) /\ current(M0) # NONE =>
                  /\ up(M0).err = OK /\ left(M0).err = OK /\ right(M0).err = OK
                  /\ parent_call(M0).err = OK /\ child_query(M0).err = OK)
    /\ [][pc = "walk" /\ err' # OK =>
            UNCHANGED <<heap, root, path, leaf_direction>>]_vars

\* A call on the empty marker has raised, below the root, in a right slot.
ErrorsChangeNothingWitness ==
    /\ pc = "walk" /\ err = "ValueError"
    /\ Len(path) >= 3 /\ current(M) = NONE /\ leaf_direction = RIGHT

----------------------------------------------------------------------------
\* Arbitrary trees: a client builds the tree node by node from RBNode
\* objects of either colour, in any shape.

Fresh(col) == RBNode([key |-> 1, tag |-> Len(heap) + 1], col, NONE, NONE)

Unused == UNCHANGED <<path, leaf_direction, err, pc, z, added, arm, gp, iters,
                      rotations, sides, updates>>

\* t.root = RBNode(value, col)
PlantRoot(col) ==
    /\ root = NONE
    /\ Len(heap) < MaxNodes
    /\ heap' = Append(heap, Fresh(col))
    /\ root' = Len(heap) + 1
    /\ Unused

\* p.left = RBNode(value, col)
GrowLeft(p, col) ==
    /\ heap[p].left = NONE
    /\ Len(heap) < MaxNodes
    /\ heap' = Append([heap EXCEPT ![p].left = Len(heap) + 1], Fresh(col))
    /\ UNCHANGED root
    /\ Unused

\* p.right = RBNode(value, col)
GrowRight(p, col) ==
    /\ heap[p].right = NONE
    /\ Len(heap) < MaxNodes
    /\ heap' = Append([heap EXCEPT ![p].right = Len(heap) + 1], Fresh(col))
    /\ UNCHANGED root
    /\ Unused

NextGrow ==
    \E col \in {RED, BLACK} :
        \/ PlantRoot(col)
        \/ \E p \in 1..Len(heap) : GrowLeft(p, col)
        \/ \E p \in 1..Len(heap) : GrowRight(p, col)

GrowSpec == Init /\ [][NextGrow]_vars

\* C20: invariant() is exact on arbitrary trees, of every shape and
\* colouring: it returns True exactly when the tree is empty, or the root is
\* BLACK, no RED node has a RED child and every node has equal numbers of
\* BLACK nodes on all its paths down to absent-child positions; it returns
\* False for every tree violating any of the three rules.
InvariantExact ==
    invariant(M) <=> (root = NONE \/ (RootBlack /\ NoRedRed /\ BlackBalanced))

\* A tree of MaxNodes nodes that breaks only the third rule, and not at the
\* root: the root's two subtrees have equal counts, a node below has not.
InvariantExactWitness ==
    /\ Len(heap) = MaxNodes /\ RootBlack /\ NoRedRed /\ ~BlackBalanced
    /\ bpbalance(heap, heap[root].left) # -1 \/ bpbalance(heap, heap[root].right) # -1
    /\ ~invariant(M)

====
